---- MODULE Spec2Model ----
(***************************************************************************)
(* Model of the launcher src/main.py: command-line scan, transport         *)
(* validation, the SSE entry point, run_server_with_retry and the          *)
(* termination-signal handler.                                             *)
(*                                                                         *)
(* Strings are sequences of symbols.  A symbol is one character ("8",     *)
(* "=", "-", "a") or one of the fixed words "--sse", "--transport",        *)
(* "--port", "--retry", "--verbose", "stdio", "sse", "http", "ftp", which  *)
(* contain no "=" and are never split.  Durations are in milliseconds.     *)
(***************************************************************************)
EXTENDS Integers, Sequences, FiniteSets, TLC

\* Longest argument list explored.
MaxArgs == 2

----------------------------------------------------------------------------
\* Strings

Str(w) == <<w>>

Digits == {"0", "1", "2", "3", "4", "5", "6", "7", "8", "9"}

DigitVal(c) ==
    CASE c = "0" -> 0 [] c = "1" -> 1 [] c = "2" -> 2 [] c = "3" -> 3
      [] c = "4" -> 4 [] c = "5" -> 5 [] c = "6" -> 6 [] c = "7" -> 7
      [] c = "8" -> 8 [] c = "9" -> 9

\* s.startswith(p)
StartsWith(s, p) ==
    /\ Len(s) >= Len(p)
    /\ SubSeq(s, 1, Len(p)) = p

\* Index of the first "=" of s at or after position i, or Len(s) + 1.
RECURSIVE NextEq(_, _)
NextEq(s, i) ==
    IF i > Len(s) THEN Len(s) + 1
    ELSE IF s[i] = "=" THEN i
    ELSE NextEq(s, i + 1)

\* s.split("=")[1]: the text between the first "=" and the second one (or the
\* end of s).  Only applied to strings that contain an "=".
SplitField1(s) ==
    LET first  == NextEq(s, 1)
        second == NextEq(s, first + 1)
    IN  SubSeq(s, first + 1, second - 1)

\* The digits of an int() literal: s without its optional sign.
IntBody(s) ==
    IF Len(s) > 0 /\ s[1] \in {"-", "+"} THEN Tail(s) ELSE s

\* int(s) does not raise ValueError (over the alphabet of the model: no
\* blanks and no underscores).
IsIntLiteral(s) ==
    /\ Len(IntBody(s)) > 0
    /\ \A i \in 1..Len(IntBody(s)) : IntBody(s)[i] \in Digits

RECURSIVE DigitsValue(_)
DigitsValue(d) ==
    IF Len(d) = 0 THEN 0
    ELSE 10 * DigitsValue(SubSeq(d, 1, Len(d) - 1)) + DigitVal(d[Len(d)])

\* int(s) for a literal s.
ParseInt(s) ==
    IF Len(s) > 0 /\ s[1] = "-" THEN 0 - DigitsValue(IntBody(s))
    ELSE DigitsValue(IntBody(s))

----------------------------------------------------------------------------
\* Configuration tables

VALID_TRANSPORTS == <<Str("stdio"), Str("sse"), Str("http")>>

TRANSPORT_CONFIG ==
    [t \in {Str("stdio"), Str("sse"), Str("http")} |->
        IF t = Str("stdio")
        THEN [startup_delay |-> 100, max_retries |-> 1, retry_delay |-> 500]
        ELSE IF t = Str("sse")
        THEN [startup_delay |-> 3000, max_retries |-> 5, retry_delay |-> 3000,
              port |-> 8080, connection_timeout |-> 10000]
        ELSE [startup_delay |-> 500, max_retries |-> 3, retry_delay |-> 1000,
              port |-> 8000]]

\* d.get(k, default)
Get(d, k, default) == IF k \in DOMAIN d THEN d[k] ELSE default

\* d[k] = v
Put(d, k, v) == [x \in (DOMAIN d) \cup {k} |-> IF x = k THEN v ELSE d[x]]

EmptyDict == [x \in {} |-> 0]

\* TRANSPORT_CONFIG.get(transport_type, {})
ProfileOf(t) == IF t \in DOMAIN TRANSPORT_CONFIG THEN TRANSPORT_CONFIG[t] ELSE EmptyDict

----------------------------------------------------------------------------
\* Arguments explored

ArgUniverse ==
    { <<"--sse">>,
      <<"--verbose">>,
      <<"--transport", "=", "stdio">>,
      <<"--transport", "=", "http">>,
      <<"--transport", "=", "sse">>,
      <<"--transport", "=", "ftp">>,
      <<"--port", "=", "8", "1">>,
      <<"--port", "=", "a", "b", "c">>,
      <<"--port", "=">>,
      <<"--port", "=", "8", "1", "=", "a">>,
      <<"--retry", "=", "0">>,
      <<"--retry", "=", "2">>,
      <<"--retry", "=", "-", "2">>,
      <<"--retry", "=", "x", "y", "z">> }

ArgLists == UNION { [1..n -> ArgUniverse] : n \in 0..MaxArgs }

----------------------------------------------------------------------------
\* State

VARIABLES
    argv,              \* sys.argv[1:]
    argi,              \* index of the next argument of the scan
    transport,         \* transport
    config,            \* config
    is_shutting_down,  \* the global shutdown flag
    flag_writes,       \* number of assignments to is_shutting_down by the handler
    pc,                \* what the main thread is doing
    max_retries,       \* locals of run_server_with_retry
    retry_delay,
    startup_delay,
    retries,
    last_error,
    success,           \* result of run_server_with_retry: "none", "true", "false"
    events,            \* sleeps, port checks, invocations and their outcomes, in order
    calls,             \* arguments of each mcp.run invocation
    sse_calls,         \* arguments of each run_sse_server invocation
    probes,            \* ports probed by check_connection_status, with the outcome
    failure_log,       \* the error named by the final "Failed to start server" message
    pending,           \* exit status the finally block will end with
    signals,           \* number of termination signals delivered
    forced_at,         \* where the main thread was when the handler called sys.exit(1)
    exit_status        \* exit status of the process, -1 while it runs

vars == <<argv, argi, transport, config, is_shutting_down, flag_writes, pc,
          max_retries, retry_delay, startup_delay, retries, last_error, success,
          events, calls, sse_calls, probes, failure_log, pending, signals, forced_at,
          exit_status>>

main_vars == <<argv, argi, transport, config>>
rwr_vars  == <<max_retries, retry_delay, startup_delay, retries, last_error>>
sig_vars  == <<is_shutting_down, flag_writes, signals, forced_at>>
io_vars   == <<events, calls, sse_calls, probes, failure_log>>

Event(k, v) == [kind |-> k, val |-> v]

\* Exceptions of the run operation that the retry loop catches, by except clause.
CaughtErrors == {"ConnectionError", "OSError", "Exception"}

\* Outcomes of the socket probe: connect_ex returns non-zero, returns 0, or raises.
ProbeOutcomes == {"refused", "connected", "error"}

Init ==
    /\ argv \in ArgLists
    /\ argi = 1
    /\ transport = Str("stdio")
    /\ config = EmptyDict
    /\ is_shutting_down = FALSE
    /\ flag_writes = 0
    /\ pc = "create"
    /\ max_retries = 0
    /\ retry_delay = 0
    /\ startup_delay = 0
    /\ retries = 0
    /\ last_error = "None"
    /\ success = "none"
    /\ events = <<>>
    /\ calls = <<>>
    /\ sse_calls = <<>>
    /\ probes = <<>>
    /\ failure_log = "none"
    /\ pending = 0
    /\ signals = 0
    /\ forced_at = "none"
    /\ exit_status = -1

\* sys.exit(status) outside the try statement of the main block.
ExitNow(status) ==
    /\ pc' = "exited"
    /\ exit_status' = status
    /\ UNCHANGED pending

\* sys.exit(status), or falling off the end (status 0), inside the try statement:
\* the finally block runs first.
ExitThroughFinally(status) ==
    /\ pc' = "cleanup"
    /\ pending' = status
    /\ UNCHANGED exit_status

Goto(label) ==
    /\ pc' = label
    /\ UNCHANGED <<pending, exit_status>>

\* The handler has forced the exit.
Forced == forced_at # "none"

----------------------------------------------------------------------------
\* Signal handler

\* Variant of the handler: the forced exit uses status 0.
handle_shutdown_signal_Exit0 ==
    /\ pc # "exited"
    /\ signals' = signals + 1
    /\ IF is_shutting_down
       THEN /\ forced_at' = pc
            /\ ExitNow(0)
            /\ UNCHANGED <<is_shutting_down, flag_writes>>
       ELSE /\ is_shutting_down' = TRUE
            /\ flag_writes' = flag_writes + 1
            /\ UNCHANGED <<forced_at, pc, pending, exit_status>>
    /\ UNCHANGED <<main_vars, rwr_vars, success, io_vars>>

\* Variant of the handler: the test of the flag is missing, every signal
\* assigns the flag and none exits.
handle_shutdown_signal_NoTest ==
    /\ pc # "exited"
    /\ signals' = signals + 1
    /\ is_shutting_down' = TRUE
    /\ flag_writes' = flag_writes + 1
    /\ UNCHANGED <<forced_at, pc, pending, exit_status>>
    /\ UNCHANGED <<main_vars, rwr_vars, success, io_vars>>

\* handle_shutdown_signal, delivered to the main thread at any point of the run.
\* SystemExit raised by the handler is caught by no except clause of the program
\* (they name Exception and KeyboardInterrupt), so the process ends with status 1.
handle_shutdown_signal ==
    /\ pc # "exited"
    /\ signals' = signals + 1
    /\ IF is_shutting_down
       THEN /\ forced_at' = pc
            /\ ExitNow(1)
            /\ UNCHANGED <<is_shutting_down, flag_writes>>
       ELSE /\ is_shutting_down' = TRUE
            /\ flag_writes' = flag_writes + 1
            /\ UNCHANGED <<forced_at, pc, pending, exit_status>>
    /\ UNCHANGED <<main_vars, rwr_vars, success, io_vars>>

----------------------------------------------------------------------------
\* Module level and argument scan

\* mcp = create_mcp_server(), which may raise.
CreateServer ==
    /\ pc = "create"
    /\ \E ok \in BOOLEAN :
          IF ok THEN Goto("parse") ELSE ExitNow(1)
    /\ UNCHANGED <<main_vars, rwr_vars, sig_vars, success, io_vars>>

\* One iteration of "for arg in sys.argv[1:]".
ParseArg ==
    /\ pc = "parse"
    /\ argi <= Len(argv)
    /\ LET arg == argv[argi] IN
       /\ argi' = argi + 1
       /\ IF arg = Str("--sse")
          THEN /\ transport' = Str("sse")
               /\ Goto("parse")
               /\ UNCHANGED config
          ELSE IF StartsWith(arg, <<"--transport", "=">>)
          THEN /\ transport' = SplitField1(arg)
               /\ Goto("parse")
               /\ UNCHANGED config
          ELSE IF StartsWith(arg, <<"--port", "=">>)
          THEN /\ IF IsIntLiteral(SplitField1(arg))
                  THEN /\ config' = Put(config, "port", ParseInt(SplitField1(arg)))
                       /\ Goto("parse")
                  ELSE /\ ExitNow(1)
                       /\ UNCHANGED config
               /\ UNCHANGED transport
          ELSE IF StartsWith(arg, <<"--retry", "=">>)
          THEN /\ IF IsIntLiteral(SplitField1(arg))
                  THEN /\ config' = Put(config, "max_retries", ParseInt(SplitField1(arg)))
                       /\ Goto("parse")
                  ELSE /\ ExitNow(1)
                       /\ UNCHANGED config
               /\ UNCHANGED transport
          ELSE /\ Goto("parse")
               /\ UNCHANGED <<transport, config>>
    /\ UNCHANGED <<argv, rwr_vars, sig_vars, success, io_vars>>

\* Variant of the validation: every name is accepted.
validate_transport_Any(transport_type) == TRUE

validate_transport(transport_type) ==
    \E i \in 1..Len(VALID_TRANSPORTS) : VALID_TRANSPORTS[i] = transport_type

\* "if not validate_transport(transport): sys.exit(1)", after the scan.
Validate ==
    /\ pc = "parse"
    /\ argi > Len(argv)
    /\ IF validate_transport(transport) THEN Goto("dispatch") ELSE ExitNow(1)
    /\ UNCHANGED <<main_vars, rwr_vars, sig_vars, success, io_vars>>

----------------------------------------------------------------------------
\* run_server_with_retry

IsNetworkTransport(transport_type) ==
    transport_type = Str("sse") \/ transport_type = Str("http")

\* Variant of the check: the stdio branch is missing.
check_connection_status_NoStdio(transport_type, cfg, probe) ==
    IF IsNetworkTransport(transport_type) THEN probe = "refused"
    ELSE FALSE

\* check_connection_status, given what the probe does when it is made.
check_connection_status(transport_type, cfg, probe) ==
    IF transport_type = Str("stdio") THEN TRUE
    ELSE IF IsNetworkTransport(transport_type) THEN probe = "refused"
    ELSE FALSE

\* The port check_connection_status probes.
ProbePort(transport_type, cfg) ==
    Get(cfg, "port", TRANSPORT_CONFIG[transport_type]["port"])

\* Variant of the options: the --port override is ignored.
TransportOptions_DefaultOnly(transport_type, cfg) ==
    IF IsNetworkTransport(transport_type)
    THEN { <<"port", ProfileOf(transport_type)["port"]>> }
    ELSE {}

\* transport_options of one invocation, a set of <<name, value>> pairs.
TransportOptions(transport_type, cfg) ==
    IF IsNetworkTransport(transport_type)
    THEN { <<"port", Get(cfg, "port", ProfileOf(transport_type)["port"])>> }
    ELSE {}

\* Variant of the loop test: the loop stops once the shutdown flag is set.
LoopCondition_ObservesFlag(r, m) == r <= m /\ ~is_shutting_down

\* Variant of the loop test: the first invocation is always made.
LoopCondition_AtLeastOnce(r, m) == r = 0 \/ r <= m

\* Variants of the loop test: one iteration too many, one too few.
LoopCondition_OneMore(r, m) == r <= m + 1

LoopCondition_Strict(r, m) == r < m

\* "while retries <= max_retries"
LoopCondition(r, m) == r <= m

\* "if retries <= max_retries" before the retry sleep
RetryCondition(r, m) == r <= m

\* Variant of the retry sleep: linear backoff.
RetrySleep_Backoff(delay, r) == delay * r

\* The argument of time.sleep before a retry.
RetrySleep(delay, r) == delay

\* Variant of the dispatch: sse goes through run_server_with_retry like the
\* other transports.
Dispatch_Unified ==
    /\ pc = "dispatch"
    /\ max_retries' = Get(config, "max_retries", Get(ProfileOf(transport), "max_retries", 1))
    /\ retry_delay' = Get(config, "retry_delay", Get(ProfileOf(transport), "retry_delay", 1000))
    /\ startup_delay' = Get(config, "startup_delay", Get(ProfileOf(transport), "startup_delay", 500))
    /\ events' = Append(events, Event("sleep", startup_delay'))
    /\ Goto("startup_sleep")
    /\ UNCHANGED <<retries, last_error, calls, sse_calls, probes, failure_log>>
    /\ UNCHANGED <<main_vars, sig_vars, success>>

\* Lines 197-211: the SSE entry point for sse, else the entry of
\* run_server_with_retry up to its startup sleep.
Dispatch ==
    /\ pc = "dispatch"
    /\ IF transport = Str("sse")
       THEN /\ sse_calls' = Append(sse_calls,
                   [port |-> Get(config, "port", TRANSPORT_CONFIG[Str("sse")]["port"]),
                    host |-> "0.0.0.0"])
            /\ events' = Append(events, Event("sse", 0))
            /\ Goto("sse_running")
            /\ UNCHANGED <<rwr_vars, calls, probes, failure_log>>
       ELSE /\ max_retries' = Get(config, "max_retries", Get(ProfileOf(transport), "max_retries", 1))
            /\ retry_delay' = Get(config, "retry_delay", Get(ProfileOf(transport), "retry_delay", 1000))
            /\ startup_delay' = Get(config, "startup_delay", Get(ProfileOf(transport), "startup_delay", 500))
            /\ events' = Append(events, Event("sleep", startup_delay'))
            /\ Goto("startup_sleep")
            /\ UNCHANGED <<retries, last_error, calls, sse_calls, probes, failure_log>>
    /\ UNCHANGED <<main_vars, sig_vars, success>>

\* time.sleep(startup_delay) returns.
StartupSleepDone ==
    /\ pc = "startup_sleep"
    /\ Goto("port_check")
    /\ UNCHANGED <<main_vars, rwr_vars, sig_vars, success, io_vars>>

\* Variant of the port check: a failed check makes the function return False.
PortCheck_Fatal ==
    /\ pc = "port_check"
    /\ \E probe \in ProbeOutcomes :
          /\ IF IsNetworkTransport(transport)
             THEN probes' = Append(probes,
                      [port |-> ProbePort(transport, config), outcome |-> probe])
             ELSE /\ probe = "refused"
                  /\ UNCHANGED probes
          /\ events' = Append(events,
                Event("check", IF check_connection_status(transport, config, probe) THEN 1 ELSE 0))
          /\ IF check_connection_status(transport, config, probe)
             THEN /\ Goto("loop_test")
                  /\ UNCHANGED success
             ELSE /\ Goto("returned")
                  /\ success' = "false"
    /\ retries' = 0
    /\ last_error' = "None"
    /\ UNCHANGED <<main_vars, max_retries, retry_delay, startup_delay, sig_vars,
                   calls, sse_calls, failure_log>>

\* Lines 118-124: the port check, whose result only selects a warning, then the
\* initialisation of the retry counter.
PortCheck ==
    /\ pc = "port_check"
    /\ \E probe \in ProbeOutcomes :
          /\ IF IsNetworkTransport(transport)
             THEN probes' = Append(probes,
                      [port |-> ProbePort(transport, config), outcome |-> probe])
             ELSE /\ probe = "refused"
                  /\ UNCHANGED probes
          /\ events' = Append(events,
                Event("check", IF check_connection_status(transport, config, probe) THEN 1 ELSE 0))
    /\ retries' = 0
    /\ last_error' = "None"
    /\ Goto("loop_test")
    /\ UNCHANGED <<main_vars, max_retries, retry_delay, startup_delay, sig_vars,
                   success, calls, sse_calls, failure_log>>

\* The while test: either the next invocation of mcp.run starts, or the loop
\* ends, the final message names last_error, and the function returns False.
LoopTest ==
    /\ pc = "loop_test"
    /\ IF LoopCondition(retries, max_retries)
       THEN /\ calls' = Append(calls,
                   [transport |-> transport, options |-> TransportOptions(transport, config)])
            /\ events' = Append(events, Event("run", retries + 1))
            /\ Goto("running")
            /\ UNCHANGED <<success, failure_log>>
       ELSE /\ failure_log' = last_error
            /\ success' = "false"
            /\ Goto("returned")
            /\ UNCHANGED <<events, calls>>
    /\ UNCHANGED <<main_vars, rwr_vars, sig_vars, sse_calls, probes>>

\* mcp.run returns: return True.
RunReturns ==
    /\ pc = "running"
    /\ events' = Append(events, Event("return", 0))
    /\ success' = "true"
    /\ Goto("returned")
    /\ UNCHANGED <<main_vars, rwr_vars, sig_vars, calls, sse_calls, probes, failure_log>>

\* Variant: the counter is incremented twice per failure.
RunRaises_DoubleIncrement ==
    /\ pc = "running"
    /\ \E e \in CaughtErrors :
          /\ last_error' = e
          /\ retries' = retries + 2
          /\ IF RetryCondition(retries', max_retries)
             THEN /\ events' = Append(Append(events, Event(e, 0)),
                                      Event("sleep", RetrySleep(retry_delay, retries')))
                  /\ Goto("retry_sleep")
             ELSE /\ events' = Append(events, Event(e, 0))
                  /\ Goto("loop_test")
    /\ UNCHANGED <<main_vars, max_retries, retry_delay, startup_delay, sig_vars,
                   success, calls, sse_calls, probes, failure_log>>

\* Variant: the ConnectionError clause re-raises instead of retrying.
RunRaises_ConnectionFatal ==
    /\ pc = "running"
    /\ \E e \in CaughtErrors :
          /\ last_error' = e
          /\ IF e = "ConnectionError"
             THEN /\ events' = Append(events, Event(e, 0))
                  /\ ExitThroughFinally(1)
                  /\ UNCHANGED retries
             ELSE /\ retries' = retries + 1
                  /\ IF RetryCondition(retries', max_retries)
                     THEN /\ events' = Append(Append(events, Event(e, 0)),
                                              Event("sleep", RetrySleep(retry_delay, retries')))
                          /\ Goto("retry_sleep")
                     ELSE /\ events' = Append(events, Event(e, 0))
                          /\ Goto("loop_test")
    /\ UNCHANGED <<main_vars, max_retries, retry_delay, startup_delay, sig_vars,
                   success, calls, sse_calls, probes, failure_log>>

\* Variant: only the first error is retained.
RunRaises_KeepFirstError ==
    /\ pc = "running"
    /\ \E e \in CaughtErrors :
          /\ last_error' = (IF last_error = "None" THEN e ELSE last_error)
          /\ retries' = retries + 1
          /\ IF RetryCondition(retries', max_retries)
             THEN /\ events' = Append(Append(events, Event(e, 0)),
                                      Event("sleep", RetrySleep(retry_delay, retries')))
                  /\ Goto("retry_sleep")
             ELSE /\ events' = Append(events, Event(e, 0))
                  /\ Goto("loop_test")
    /\ UNCHANGED <<main_vars, max_retries, retry_delay, startup_delay, sig_vars,
                   success, calls, sse_calls, probes, failure_log>>

\* mcp.run raises an exception one of the three except clauses catches.
RunRaises ==
    /\ pc = "running"
    /\ \E e \in CaughtErrors :
          /\ last_error' = e
          /\ retries' = retries + 1
          /\ IF RetryCondition(retries', max_retries)
             THEN /\ events' = Append(Append(events, Event(e, 0)),
                                      Event("sleep", RetrySleep(retry_delay, retries')))
                  /\ Goto("retry_sleep")
             ELSE /\ events' = Append(events, Event(e, 0))
                  /\ Goto("loop_test")
    /\ UNCHANGED <<main_vars, max_retries, retry_delay, startup_delay, sig_vars,
                   success, calls, sse_calls, probes, failure_log>>

\* Variant: KeyboardInterrupt is caught by the loop like the other failures.
RunInterrupted_Retried ==
    /\ pc = "running"
    /\ last_error' = "KeyboardInterrupt"
    /\ retries' = retries + 1
    /\ IF RetryCondition(retries', max_retries)
       THEN /\ events' = Append(Append(events, Event("KeyboardInterrupt", 0)),
                                Event("sleep", RetrySleep(retry_delay, retries')))
            /\ Goto("retry_sleep")
       ELSE /\ events' = Append(events, Event("KeyboardInterrupt", 0))
            /\ Goto("loop_test")
    /\ UNCHANGED <<main_vars, max_retries, retry_delay, startup_delay, sig_vars,
                   success, calls, sse_calls, probes, failure_log>>

\* KeyboardInterrupt out of mcp.run: no except clause of the loop matches, the
\* main block catches it and falls through to the finally block.
RunInterrupted ==
    /\ pc = "running"
    /\ events' = Append(events, Event("KeyboardInterrupt", 0))
    /\ ExitThroughFinally(0)
    /\ UNCHANGED <<main_vars, rwr_vars, sig_vars, success, calls, sse_calls, probes, failure_log>>

\* Variant: the port check is made again before each retry.
RetrySleepDone_Recheck ==
    /\ pc = "retry_sleep"
    /\ Goto("port_check")
    /\ UNCHANGED <<main_vars, rwr_vars, sig_vars, success, io_vars>>

\* time.sleep(retry_delay) returns.
RetrySleepDone ==
    /\ pc = "retry_sleep"
    /\ Goto("loop_test")
    /\ UNCHANGED <<main_vars, rwr_vars, sig_vars, success, io_vars>>

\* Variant of the caller's test: "if success: sys.exit(1)".
AfterRetryLoop_Inverted ==
    /\ pc = "returned"
    /\ IF success = "true" THEN ExitThroughFinally(1) ELSE ExitThroughFinally(0)
    /\ UNCHANGED <<main_vars, rwr_vars, sig_vars, success, io_vars>>

\* Lines 211-214: "if not success: sys.exit(1)".
AfterRetryLoop ==
    /\ pc = "returned"
    /\ IF success = "false" THEN ExitThroughFinally(1) ELSE ExitThroughFinally(0)
    /\ UNCHANGED <<main_vars, rwr_vars, sig_vars, success, io_vars>>

----------------------------------------------------------------------------
\* SSE entry point

SseReturns ==
    /\ pc = "sse_running"
    /\ events' = Append(events, Event("return", 0))
    /\ ExitThroughFinally(0)
    /\ UNCHANGED <<main_vars, rwr_vars, sig_vars, success, calls, sse_calls, probes, failure_log>>

\* run_sse_server raises an Exception: "except Exception" of the main block.
SseRaises ==
    /\ pc = "sse_running"
    /\ \E e \in CaughtErrors :
          events' = Append(events, Event(e, 0))
    /\ ExitThroughFinally(1)
    /\ UNCHANGED <<main_vars, rwr_vars, sig_vars, success, calls, sse_calls, probes, failure_log>>

SseInterrupted ==
    /\ pc = "sse_running"
    /\ events' = Append(events, Event("KeyboardInterrupt", 0))
    /\ ExitThroughFinally(0)
    /\ UNCHANGED <<main_vars, rwr_vars, sig_vars, success, calls, sse_calls, probes, failure_log>>

\* The finally block ends and the process exits.
Cleanup ==
    /\ pc = "cleanup"
    /\ pc' = "exited"
    /\ exit_status' = pending
    /\ UNCHANGED <<pending, main_vars, rwr_vars, sig_vars, success, io_vars>>

----------------------------------------------------------------------------

Next ==
    \/ handle_shutdown_signal
    \/ CreateServer
    \/ ParseArg
    \/ Validate
    \/ Dispatch
    \/ StartupSleepDone
    \/ PortCheck
    \/ LoopTest
    \/ RunReturns
    \/ RunRaises
    \/ RunInterrupted
    \/ RetrySleepDone
    \/ AfterRetryLoop
    \/ SseReturns
    \/ SseRaises
    \/ SseInterrupted
    \/ Cleanup

Spec == Init /\ [][Next]_vars

\* The steps of the main thread: everything but the delivery of a signal.
MainStep ==
    \/ CreateServer
    \/ ParseArg
    \/ Validate
    \/ Dispatch
    \/ StartupSleepDone
    \/ PortCheck
    \/ LoopTest
    \/ RunReturns
    \/ RunRaises
    \/ RunInterrupted
    \/ RetrySleepDone
    \/ AfterRetryLoop
    \/ SseReturns
    \/ SseRaises
    \/ SseInterrupted
    \/ Cleanup

\* The main thread is sequential code that keeps running: sleeps end, and every
\* blocking call eventually returns or raises.
FairSpec == Spec /\ WF_vars(MainStep)

TypeOK ==
    /\ argi \in 1..(MaxArgs + 2)
    /\ is_shutting_down \in BOOLEAN
    /\ exit_status \in {-1, 0, 1}

----------------------------------------------------------------------------
\* Properties

\* max_retries as configured: the --retry override, else the profile's value.
ConfiguredMaxRetries ==
    Get(config, "max_retries", Get(ProfileOf(transport), "max_retries", 1))

Max(a, b) == IF a >= b THEN a ELSE b

LastEvent == events[Len(events)]

\* Every invocation made so far has raised an exception the loop catches.
AllCallsRaised ==
    \A i \in 1..Len(events) : events[i].kind \notin {"return", "KeyboardInterrupt"}

\* C1, as stated: when run_server_with_retry returns False it has invoked the
\* run operation at most N + 1 times, for every configured max_retries = N.
C1_AtMostNPlus1 ==
    success = "false" => Len(calls) <= ConfiguredMaxRetries + 1

\* C1, amended: one execution of run_server_with_retry invokes the run
\* operation at most max(0, N + 1) times, at every point of the run and in
\* particular when it returns False.
C1_AtMostMax0NPlus1 ==
    Len(calls) <= Max(0, ConfiguredMaxRetries + 1)

\* A failure is reported after three invocations with max_retries = 2.
C1_Witness ==
    /\ success = "false"
    /\ ConfiguredMaxRetries = 2
    /\ Len(calls) = 3

\* C2: when every invocation raises a caught exception and N >= 0, and no
\* second signal forces the exit, run_server_with_retry ends after exactly
\* N + 1 invocations, returns False, and the process exits with status 1.
C2_ExactlyNPlus1ThenExit1 ==
    (/\ ConfiguredMaxRetries >= 0
     /\ pc \in {"returned", "cleanup", "exited"}
     /\ ~Forced
     /\ Len(calls) > 0
     /\ AllCallsRaised)
    => /\ success = "false"
       /\ Len(calls) = ConfiguredMaxRetries + 1
       /\ pc = "cleanup" => pending = 1
       /\ pc = "exited" => exit_status = 1

\* http with a --port override and the profile's max_retries = 3: four
\* invocations, each raising OSError, then exit status 1.
C2_Witness ==
    /\ pc = "exited"
    /\ ~Forced
    /\ transport = Str("http")
    /\ "port" \in DOMAIN config
    /\ "max_retries" \notin DOMAIN config
    /\ Len(calls) = 4
    /\ \A i \in 1..Len(events) :
          events[i].kind \in CaughtErrors => events[i].kind = "OSError"
    /\ exit_status = 1

\* C3: every invocation after the first is preceded by exactly one sleep, of
\* the profile's retry_delay whatever the attempt number, itself preceded by the
\* failure of the previous invocation; every sleep after the startup sleep is
\* such a retry sleep and follows a failed attempt that is not the last one
\* (attempt number <= N); no sleep follows the final failed attempt.
C3_ConstantRetrySleep ==
    /\ \A i \in 1..Len(events) :
          (events[i].kind = "run" /\ events[i].val > 1)
          => /\ i > 3
             /\ events[i - 1] = Event("sleep", TRANSPORT_CONFIG[transport]["retry_delay"])
             /\ events[i - 2].kind \in CaughtErrors
             /\ events[i - 3].kind = "run"
             /\ events[i - 3].val = events[i].val - 1
    /\ \A i \in 2..Len(events) :
          events[i].kind = "sleep"
          => /\ i > 2
             /\ events[i].val = TRANSPORT_CONFIG[transport]["retry_delay"]
             /\ events[i - 1].kind \in CaughtErrors
             /\ events[i - 2].kind = "run"
             /\ events[i - 2].val <= ConfiguredMaxRetries
             /\ (i < Len(events) => events[i + 1].kind = "run")
    /\ (success = "false" /\ Len(events) > 0) => LastEvent.kind # "sleep"

\* Three failed attempts separated by two retry sleeps, then failure.
C3_Witness ==
    /\ success = "false"
    /\ Len(calls) >= 3
    /\ Cardinality({i \in 1..Len(events) : events[i].kind = "sleep"}) = Len(calls)

\* C4: once an invocation of the run operation returns, nothing follows it (no
\* further invocation, no sleep), run_server_with_retry returns True, and the
\* process exits with status 0 unless a second signal forces the exit.
C4_ReturnIsSuccess ==
    \A i \in 1..Len(events) :
       (events[i].kind = "return" /\ Len(calls) > 0)
       => /\ i = Len(events)
          /\ success = "true"
          /\ pc \in {"returned", "cleanup", "exited"}
          /\ pc = "cleanup" => pending = 0
          /\ (pc = "exited" /\ ~Forced) => exit_status = 0

\* stdio, the first invocation returns: one invocation, only the startup sleep,
\* exit status 0.
C4_Witness ==
    /\ pc = "exited"
    /\ transport = Str("stdio")
    /\ Len(calls) = 1
    /\ LastEvent.kind = "return"
    /\ Cardinality({i \in 1..Len(events) : events[i].kind = "sleep"}) = 1
    /\ exit_status = 0

\* C5: a termination signal delivered while the flag is set ends the process
\* at once with status 1, wherever the main thread is, and nothing runs after
\* it: no step of the program is enabled, so no invocation follows.
C5_SecondSignalForcesExit ==
    /\ signals >= 2 => (Forced /\ pc = "exited" /\ exit_status = 1 /\ signals = 2)
    /\ Forced => (signals = 2 /\ pc = "exited" /\ exit_status = 1 /\ ~ENABLED Next)

\* The second signal arrives during a blocking invocation that is a retry.
C5_Witness ==
    /\ forced_at = "running"
    /\ Len(calls) = 2
    /\ LastEvent.kind = "run"
    /\ pc = "exited"
    /\ exit_status = 1

\* C6: the flag is false until the first signal; the first signal sets it and
\* the process goes on; from then on it is true in every state, and the handler
\* has assigned it exactly once however many signals arrive.
C6_FlagSetOnce ==
    /\ signals = 0 => (~is_shutting_down /\ flag_writes = 0)
    /\ signals >= 1 => (is_shutting_down /\ flag_writes = 1)
    /\ signals = 1 => ~Forced

\* One signal has been delivered and the program has gone on to finish by itself.
C6_Witness ==
    /\ signals = 1
    /\ is_shutting_down
    /\ pc = "exited"
    /\ Len(calls) > 0
    /\ exit_status = 0

\* Names validate_transport is tried on.
TransportNames ==
    { Str("stdio"), Str("sse"), Str("http"), Str("ftp"), <<>>, Str("--sse"),
      <<"h", "t", "t", "p">>, <<"http", "=">>, <<"sse", "stdio">> }

\* C7: validate_transport is true exactly of stdio, sse and http; with any other
\* transport selected, the process ends at the validation with status 1, and
\* neither the run operation nor the SSE entry point is ever invoked.
C7_InvalidTransportExits ==
    /\ \A t \in TransportNames :
          validate_transport(t) <=> t \in {Str("stdio"), Str("sse"), Str("http")}
    /\ (transport \notin {Str("stdio"), Str("sse"), Str("http")}
        /\ pc \notin {"create", "parse"})
       => /\ pc = "exited"
          /\ exit_status = 1
          /\ calls = <<>>
          /\ sse_calls = <<>>

\* --transport=ftp alone: the scan completes and the validation exits with 1.
C7_Witness ==
    /\ argv = << <<"--transport", "=", "ftp">> >>
    /\ argi = 2
    /\ transport = Str("ftp")
    /\ pc = "exited"
    /\ ~Forced
    /\ exit_status = 1

\* The text after "--port=" or "--retry=" of such a flag.
FlagValue(arg) == SubSeq(arg, 3, Len(arg))

IsNumericFlag(arg) ==
    StartsWith(arg, <<"--port", "=">>) \/ StartsWith(arg, <<"--retry", "=">>)

\* C8: with a --port= or --retry= argument whose value is not an integer
\* anywhere in the argument list, neither the run operation nor the SSE entry
\* point is ever invoked and the process exits with status 1.
C8_NonIntegerFlagExits ==
    (\E i \in 1..Len(argv) :
        IsNumericFlag(argv[i]) /\ ~IsIntLiteral(FlagValue(argv[i])))
    => /\ calls = <<>>
       /\ sse_calls = <<>>
       /\ pc = "exited" => exit_status = 1

\* C9: a KeyboardInterrupt out of the run operation or the SSE entry point is
\* the last event (no further attempt, no sleep) and leads to exit status 0
\* unless a second signal forces the exit; an Exception out of the SSE entry
\* point, and a False result of run_server_with_retry, lead to exit status 1.
C9_InterruptExits0 ==
    /\ \A i \in 1..Len(events) :
          events[i].kind = "KeyboardInterrupt"
          => /\ i = Len(events)
             /\ success = "none"
             /\ pc \in {"cleanup", "exited"}
             /\ pc = "cleanup" => pending = 0
             /\ (pc = "exited" /\ ~Forced) => exit_status = 0
    /\ (sse_calls # <<>> /\ LastEvent.kind \in CaughtErrors)
       => /\ pc \in {"cleanup", "exited"}
          /\ pc = "cleanup" => pending = 1
          /\ pc = "exited" => exit_status = 1
    /\ (success = "false" /\ pc = "cleanup") => pending = 1
    /\ (success = "false" /\ pc = "exited") => exit_status = 1

\* The second invocation is interrupted from the keyboard: exit status 0 with
\* attempts left.
C9_Witness ==
    /\ Len(calls) = 2
    /\ ConfiguredMaxRetries >= 2
    /\ LastEvent.kind = "KeyboardInterrupt"
    /\ pc = "exited"
    /\ exit_status = 0

\* C10: with transport sse, after the validation: the run operation is never
\* invoked, there is no sleep, no port check and no probe; the SSE entry point
\* is invoked once, with the --port override or else 8080 and host 0.0.0.0,
\* whatever --retry says; a failure of it is the last event and gives status 1.
C10_SseBypassesRetry ==
    (transport = Str("sse") /\ pc \notin {"create", "parse"})
    => /\ calls = <<>>
       /\ probes = <<>>
       /\ \A i \in 1..Len(events) : events[i].kind \notin {"sleep", "check", "run"}
       /\ Len(sse_calls) <= 1
       /\ (pc \in {"sse_running", "cleanup"} \/ (pc = "exited" /\ events # <<>>))
          => /\ Len(sse_calls) = 1
             /\ sse_calls[1].host = "0.0.0.0"
             /\ sse_calls[1].port = (IF "port" \in DOMAIN config THEN config["port"] ELSE 8080)
       /\ (events # <<>> /\ LastEvent.kind \in CaughtErrors)
          => /\ Len(events) = 2
             /\ pc \in {"cleanup", "exited"}
             /\ pc = "exited" => exit_status = 1

\* --sse with a --retry override: the entry point fails once and the process
\* exits with status 1.
C10_Witness ==
    /\ transport = Str("sse")
    /\ "max_retries" \in DOMAIN config
    /\ config["max_retries"] > 0
    /\ Len(sse_calls) = 1
    /\ LastEvent.kind \in CaughtErrors
    /\ pc = "exited"
    /\ ~Forced
    /\ exit_status = 1

\* The port check has been made.
CheckDone == \E i \in 1..Len(events) : events[i].kind = "check"

\* The port check has been made and has failed.
CheckFailed == \E i \in 1..Len(events) : events[i] = Event("check", 0)

\* C11: whatever the port check returns (true; false because the port is
\* occupied; false because the probe raised), the function goes on to the loop
\* with retries = 0: once past the first loop test the first invocation has been
\* made whenever 0 <= N; False is returned only after max(0, N + 1) invocations
\* that all raised; and the process never exits right after the check unless a
\* second signal forces it.
C11_CheckIsAdvisory ==
    CheckDone
    => /\ pc \in {"loop_test", "running", "retry_sleep", "returned", "cleanup", "exited"}
       /\ (ConfiguredMaxRetries >= 0 /\ pc # "loop_test" /\ forced_at # "loop_test")
          => Len(calls) >= 1
       /\ success = "false"
          => (Len(calls) = Max(0, ConfiguredMaxRetries + 1) /\ AllCallsRaised)
       /\ (pc \in {"cleanup", "exited"} /\ ~Forced)
          => (success = "false" \/ LastEvent.kind \in {"return", "KeyboardInterrupt"})

\* The probe raised, the check failed, and the server was still started, failed
\* twice, and then ran and returned: exit status 0.
C11_Witness ==
    /\ probes # <<>>
    /\ probes[1].outcome = "error"
    /\ CheckFailed
    /\ Len(calls) = 3
    /\ LastEvent.kind = "return"
    /\ pc = "exited"
    /\ exit_status = 0

\* Configurations check_connection_status is tried on.
CheckConfigs ==
    { EmptyDict, [port |-> 81], [port |-> 0], [max_retries |-> 2],
      [port |-> 8000, max_retries |-> -2] }

\* C12: check_connection_status("stdio", config) is true for every config and
\* every state of the ports, and in a run with transport stdio the check
\* succeeds without any probe being made.
C12_StdioAlwaysAvailable ==
    /\ \A cfg \in CheckConfigs : \A probe \in ProbeOutcomes :
          check_connection_status(Str("stdio"), cfg, probe)
    /\ (transport = Str("stdio") /\ CheckDone)
       => /\ ~CheckFailed
          /\ probes = <<>>

\* stdio with a --port override: the check has been made, with no probe.
C12_Witness ==
    /\ transport = Str("stdio")
    /\ "port" \in DOMAIN config
    /\ CheckDone
    /\ probes = <<>>
    /\ Len(calls) = 1

\* How an invocation can end.
OutcomeKinds == CaughtErrors \cup {"return", "KeyboardInterrupt"}

IsOutcome(e) == e.kind \in OutcomeKinds

\* The events of the retry loop: those after the startup sleep and the check.
LoopEvents == SubSeq(events, 3, Len(events))

\* The outcomes of the invocations made so far, in order.
OutcomesSoFar == SelectSeq(LoopEvents, IsOutcome)

\* The events the loop produces for invocations number j, j + 1, ... that end
\* as outs says, with max_retries = n and retry_delay = delay: a function of
\* the outcomes and the configuration only.
RECURSIVE AttemptLog(_, _, _, _)
AttemptLog(outs, j, n, delay) ==
    IF outs = <<>> THEN <<>>
    ELSE <<Event("run", j), Head(outs)>>
         \o (IF Head(outs).kind \in CaughtErrors /\ j <= n
             THEN <<Event("sleep", delay)>> ELSE <<>>)
         \o AttemptLog(Tail(outs), j + 1, n, delay)

\* The loop's events are those AttemptLog gives for the outcomes so far,
\* followed by the invocation in progress if there is one, and the result is
\* the one the outcomes give; nothing here mentions the shutdown flag.
LoopIsFunctionOfOutcomes ==
    (CheckDone /\ transport \in DOMAIN TRANSPORT_CONFIG)
    => LET n     == ConfiguredMaxRetries
           delay == TRANSPORT_CONFIG[transport]["retry_delay"]
           outs  == OutcomesSoFar
           log   == AttemptLog(outs, 1, n, delay)
           next  == <<Event("run", Len(outs) + 1)>>
       IN  /\ LoopEvents = log \/ LoopEvents = log \o next
           /\ LoopEvents = log \o next
              <=> (pc = "running" \/ forced_at = "running")
           /\ success = "true"
              <=> (outs # <<>> /\ outs[Len(outs)].kind = "return")
           /\ success = "false"
              => (Len(outs) = Max(0, n + 1) /\ AllCallsRaised)
           /\ (pc \in {"returned", "cleanup", "exited"} /\ ~Forced)
              => \/ success = "false"
                 \/ (outs # <<>> /\ outs[Len(outs)].kind \in {"return", "KeyboardInterrupt"})

CountKinds(kinds) == Cardinality({i \in 1..Len(events) : events[i].kind \in kinds})

\* C14: a ConnectionError, an OSError and any other Exception raised by an
\* invocation are handled alike: each is recorded right after its invocation,
\* each adds exactly 1 to retries, and each is followed by the retry sleep of
\* retry_delay when its attempt number is <= N and by the end of the loop
\* (False returned) otherwise.
C14_CategoriesAlike ==
    (CheckDone /\ transport \in DOMAIN TRANSPORT_CONFIG)
    => /\ retries = CountKinds(CaughtErrors)
       /\ \A i \in 1..Len(events) :
             events[i].kind \in CaughtErrors
             => /\ events[i - 1].kind = "run"
                /\ events[i - 1].val <= ConfiguredMaxRetries
                   => /\ i < Len(events)
                      /\ events[i + 1] =
                            Event("sleep", TRANSPORT_CONFIG[transport]["retry_delay"])
                /\ events[i - 1].val > ConfiguredMaxRetries
                   => /\ i = Len(events)
                      /\ pc \in {"loop_test", "returned", "cleanup", "exited"}
                      /\ (pc \in {"returned", "cleanup"} \/ (pc = "exited" /\ ~Forced))
                         => success = "false"

\* The three categories occur in one run of three failed attempts.
C14_Witness ==
    /\ success = "false"
    /\ Len(calls) = 3
    /\ \A e \in CaughtErrors : CountKinds({e}) = 1

\* The outcome of the most recent invocation that has ended.
LastOutcome == OutcomesSoFar[Len(OutcomesSoFar)]

\* C15: after every failed attempt last_error is that attempt's error, and the
\* final failure message names the error of the last invocation (None when no
\* invocation was made).
C15_LastErrorIsLatest ==
    (CheckDone /\ transport \in DOMAIN TRANSPORT_CONFIG)
    => /\ (OutcomesSoFar # <<>> /\ LastOutcome.kind \in CaughtErrors)
          => last_error = LastOutcome.kind
       /\ \A e \in CaughtErrors : CountKinds({e}) = 0 => last_error # e
       /\ success = "false"
          => failure_log = (IF OutcomesSoFar = <<>> THEN "None" ELSE LastOutcome.kind)
       /\ success # "false" => failure_log = "none"

\* Failure after attempts that raised different errors: the message names the
\* last one, an OSError, not the first, a ConnectionError.
C15_Witness ==
    /\ success = "false"
    /\ Len(calls) >= 2
    /\ events[4].kind = "ConnectionError"
    /\ LastEvent.kind = "OSError"
    /\ failure_log = "OSError"

\* C16: every invocation passes the transport selected; for http its options
\* are exactly port, with the --port value if given and else 8000, the same at
\* every attempt; for stdio the options are empty whatever --port says; for sse
\* the options computed are port, with the --port value or else 8080.
C16_TransportOptions ==
    /\ \A i \in 1..Len(calls) :
          /\ calls[i].transport = transport
          /\ transport = Str("http")
             => calls[i].options =
                   { <<"port", IF "port" \in DOMAIN config THEN config["port"] ELSE 8000>> }
          /\ transport = Str("stdio") => calls[i].options = {}
          /\ transport \in {Str("http"), Str("stdio")}
    /\ \A cfg \in CheckConfigs :
          TransportOptions(Str("sse"), cfg) =
             { <<"port", IF "port" \in DOMAIN cfg THEN cfg["port"] ELSE 8080>> }

\* http with --port: three invocations, each with the port given.
C16_Witness ==
    /\ transport = Str("http")
    /\ "port" \in DOMAIN config
    /\ Len(calls) = 3
    /\ \A i \in 1..3 : calls[i].options = { <<"port", 81>> }

\* C17: in one execution of run_server_with_retry the first event is the
\* startup sleep of startup_delay, the second the port check, the third the
\* first invocation; there is one check and at most one probe, and every later
\* sleep is a retry sleep that follows a failed invocation.
C17_StartupOnceInOrder ==
    (transport \in {Str("http"), Str("stdio")} /\ events # <<>>)
    => /\ events[1] = Event("sleep", TRANSPORT_CONFIG[transport]["startup_delay"])
       /\ Len(events) >= 2 => events[2].kind = "check"
       /\ Len(events) >= 3 => events[3] = Event("run", 1)
       /\ CountKinds({"check"}) <= 1
       /\ Len(probes) <= 1
       /\ Len(calls) > 0 => CountKinds({"check"}) = 1
       /\ pc \in {"loop_test", "running", "retry_sleep", "returned"} => CheckDone
       /\ CountKinds({"sleep"}) <= 1 + CountKinds(CaughtErrors)
       /\ \A i \in 2..Len(events) :
             events[i].kind = "sleep" => events[i - 1].kind \in CaughtErrors

\* Three failed attempts: one startup sleep, one check, two retry sleeps.
C17_Witness ==
    /\ success = "false"
    /\ Len(calls) = 3
    /\ CountKinds({"check"}) = 1
    /\ CountKinds({"sleep"}) = 3
    /\ Len(probes) = 1

\* A KeyboardInterrupt has come out of the invocation in progress.
Interrupted == events # <<>> /\ LastEvent.kind = "KeyboardInterrupt"

\* C18, as stated: an execution of run_server_with_retry that is over without
\* a forced exit has returned True or False, and retries never exceeds
\* max_retries + 1 when max_retries >= 0.
C18_EndsTrueOrFalse ==
    /\ (CheckDone /\ pc \in {"cleanup", "exited"} /\ ~Forced)
       => success \in {"true", "false"}
    /\ max_retries >= 0 => retries <= max_retries + 1

\* C18, amended: when every invocation returns or raises an exception the loop
\* catches, and no signal forces an exit, run_server_with_retry eventually
\* returns True or False (a KeyboardInterrupt out of an invocation ends it with
\* neither); the result never changes once given; retries changes only by +1, at
\* a failed attempt, and never exceeds max_retries + 1 when max_retries >= 0.
C18_Terminates ==
    /\ (pc = "startup_sleep") ~> (success \in {"true", "false"} \/ Forced \/ Interrupted)
    /\ [](/\ (CheckDone /\ pc \in {"cleanup", "exited"} /\ ~Forced /\ ~Interrupted)
             => success \in {"true", "false"}
          /\ max_retries >= 0 => retries <= max_retries + 1
          /\ retries >= 0)
    /\ [][/\ success # "none" => success' = success
          /\ retries' = retries \/ (retries' = retries + 1 /\ pc = "running")]_vars

\* The function has returned False after three failed attempts, retries = 3.
C18_Witness ==
    /\ success = "false"
    /\ max_retries = 2
    /\ retries = 3
    /\ ~Forced

\* C19: with a negative max_retries the startup sleep and the port check are
\* made but the run operation is never invoked: the function returns False with
\* last_error None, the final message names None, and the process exits with
\* status 1; whatever N, False is returned after max(0, N + 1) invocations.
C19_NegativeRetries ==
    /\ (ConfiguredMaxRetries < 0 /\ transport # Str("sse"))
       => /\ calls = <<>>
          /\ success # "true"
          /\ success = "false"
             => /\ Len(events) = 2
                /\ events[1].kind = "sleep"
                /\ events[2].kind = "check"
                /\ last_error = "None"
                /\ failure_log = "None"
          /\ (pc \in {"returned", "cleanup"} \/ (pc = "exited" /\ ~Forced /\ CheckDone))
             => success = "false"
          /\ pc = "cleanup" => pending = 1
          /\ (pc = "exited" /\ CheckDone) => exit_status = 1
    /\ success = "false" => Len(calls) = Max(0, ConfiguredMaxRetries + 1)

\* --retry=-2: sleep, check, no invocation, exit status 1.
C19_Witness ==
    /\ "max_retries" \in DOMAIN config
    /\ config["max_retries"] = -2
    /\ success = "false"
    /\ Len(events) = 2
    /\ calls = <<>>
    /\ pc = "exited"
    /\ ~Forced
    /\ exit_status = 1

====
